---- MODULE Spec2Model ----
(***************************************************************************)
(* Model of dataclass_mapper/mapping_method.py: the builder                *)
(* MappingMethodSourceCode that decides, per target field, which statement *)
(* of the generated convert() routine to emit, and the behaviour of the    *)
(* emitted routine when it is called on a source instance.                 *)
(*                                                                         *)
(* A generated line is a record [indent, kind, left, right] instead of a   *)
(* string; `right` is the expression on the right-hand side of an          *)
(* assignment.  Runtime values are records [tag, items].                   *)
(***************************************************************************)
EXTENDS Integers, Sequences, FiniteSets, TLC

\* Number of target fields one builder is asked to map.
MaxFields == 2

----------------------------------------------------------------------------
(* classmeta.DataclassType, the kind tag of a record *)
PYDANTIC == "PYDANTIC"
DATACLASS == "DATACLASS"
DataclassType == {PYDANTIC, DATACLASS}

(* Field types.  name is the type's __name__, origin/arg what get_origin   *)
(* and get_args return, attrs the _map_to_* attributes the type carries.   *)
int == [name |-> "int", origin |-> "", arg |-> "", attrs |-> {}]
Bar == [name |-> "Bar", origin |-> "", arg |-> "", attrs |-> {}]
Bar2 == [name |-> "Bar2", origin |-> "", arg |-> "", attrs |-> {"_map_to_Bar"}]
list_Bar == [name |-> "list", origin |-> "list", arg |-> "Bar", attrs |-> {}]
list_Bar2 == [name |-> "list", origin |-> "list", arg |-> "Bar2", attrs |-> {}]
list_int == [name |-> "list", origin |-> "list", arg |-> "int", attrs |-> {}]
Classes == {int, Bar, Bar2}
Types == Classes \cup {list_Bar, list_Bar2, list_int}

get_origin(t) == t.origin
get_args(t) == IF t.origin = "" THEN <<>> ELSE <<CHOOSE c \in Classes : c.name = t.arg>>

(* fieldmeta.FieldMeta *)
FieldMeta(names) == [name : names, type : Types, allow_none : BOOLEAN, required : BOOLEAN]
disallow_none(f) == ~f.allow_none
NoField == [name |-> "", type |-> int, allow_none |-> FALSE, required |-> FALSE]

(* Functions usable as the origin of a target field *)
Functions == {[id |-> "f0", nparams |-> 0], [id |-> "f1", nparams |-> 1]}
NoFunction == [id |-> "", nparams |-> 0]

(* The second argument of add_mapping: Union[FieldMeta, Callable] *)
FieldOrigin(f) == [isfunction |-> FALSE, field |-> f, function |-> NoFunction]
FunctionOrigin(fn) == [isfunction |-> TRUE, field |-> NoField, function |-> fn]
isfunction(source) == source.isfunction

(* The source record has one field; the target fields are mapped in order. *)
SourceNames == {"x"}
TargetNames == <<"x", "y", "z", "w">>
TargetNameSet == {TargetNames[i] : i \in DOMAIN TargetNames}

(* uuid4().hex: an identifier that was not returned before *)
Hex == {"a1", "b2", "c3"}
uuid4(issued) == Hex \ issued

----------------------------------------------------------------------------
(* Generated lines *)
NoExpr == [op |-> "", var |-> "", func |-> "", if_None |-> FALSE]
Line(indent, kind, left, right) ==
  [indent |-> indent, kind |-> kind, left |-> left, right |-> right]
IfNotNone(name) == Line(4, "if_not_None", name, NoExpr)
IfSet(name) == Line(4, "if_set", name, NoExpr)
Attr(name) == [op |-> "attr", var |-> name, func |-> "", if_None |-> FALSE]
MapCall(name, func, if_None) == [op |-> "map", var |-> name, func |-> func, if_None |-> if_None]
ListMapCall(name, func, if_None) ==
  [op |-> "listmap", var |-> name, func |-> func, if_None |-> if_None]
HelperCall(name) == [op |-> "call", var |-> name, func |-> "", if_None |-> FALSE]

get_map_to_func_name(cls) == "_map_to_" \o cls.name

(* MappingMethodSourceCode.__init__ *)
New(source_cls, target_cls) ==
  [source_cls |-> source_cls,
   target_cls |-> target_cls,
   lines |-> <<Line(0, "def", target_cls.name, NoExpr), Line(4, "init", "", NoExpr)>>,
   methods |-> <<>>]

Append1(self, line) == [self EXCEPT !.lines = Append(self.lines, line)]

(* mutant: the indent argument is dropped and the default of 4 used *)
_add_line_default_indent(self, left_side, right_side, indent) ==
  Append1(self, Line(4, "assign", left_side, right_side))

_add_line(self, left_side, right_side, indent) ==
  Append1(self, Line(indent, "assign", left_side, right_side))

(* mutant: the guards are not emitted *)
add_assignment_unguarded(self, target, source, only_if_not_None, only_if_set) ==
  Append1(self, Line(4, "assign", target.name, Attr(source.name)))

add_assignment(self, target, source, only_if_not_None, only_if_set) ==
  LET s1 == IF only_if_not_None THEN Append1(self, IfNotNone(source.name)) ELSE self
      i1 == IF only_if_not_None THEN 8 ELSE 4
      s2 == IF only_if_set THEN Append1(s1, IfSet(source.name)) ELSE s1
      i2 == IF only_if_set THEN 8 ELSE i1
  IN _add_line(s2, target.name, Attr(source.name), i2)

(* mutant: the routine is looked up on the target class *)
is_mappable_to_swapped(SourceCls, TargetCls) ==
  ("_map_to_" \o SourceCls.name) \in TargetCls.attrs

is_mappable_to(SourceCls, TargetCls) == get_map_to_func_name(TargetCls) \in SourceCls.attrs

(* mutant: a null source value is not checked for *)
add_recursive_no_None_check(self, target, source, only_if_set, if_None) ==
  LET right_side == [op |-> "map", var |-> source.name,
                     func |-> "_map_to_" \o target.type.name, if_None |-> FALSE]
  IN IF only_if_set
       THEN Append1(Append1(self, IfSet(source.name)),
                    Line(8, "assign", target.name, right_side))
       ELSE Append1(self, Line(4, "assign", target.name, right_side))

add_recursive(self, target, source, only_if_set, if_None) ==
  LET right_side == MapCall(source.name, get_map_to_func_name(target.type), if_None)
  IN IF only_if_set
       THEN _add_line(Append1(self, IfSet(source.name)), target.name, right_side, 8)
       ELSE _add_line(self, target.name, right_side, 4)

(* mutant: the routine is called on the list, not on its elements *)
add_recursive_list_on_list(self, target, source, if_None, only_if_not_None, only_if_set) ==
  LET right_side == [op |-> "map", var |-> source.name,
                     func |-> "_map_to_" \o target.type.arg, if_None |-> if_None]
      s1 == IF only_if_not_None THEN Append1(self, IfNotNone(source.name)) ELSE self
      s2 == IF only_if_set THEN Append1(s1, IfSet(source.name)) ELSE s1
  IN Append1(s2, Line(IF only_if_not_None \/ only_if_set THEN 8 ELSE 4, "assign",
                      target.name, right_side))

add_recursive_list(self, target, source, if_None, only_if_not_None, only_if_set) ==
  LET list_item_type == get_args(target.type)[1]
      right_side == ListMapCall(source.name, get_map_to_func_name(list_item_type), if_None)
      s1 == IF only_if_not_None THEN Append1(self, IfNotNone(source.name)) ELSE self
      i1 == IF only_if_not_None THEN 8 ELSE 4
      s2 == IF only_if_set THEN Append1(s1, IfSet(source.name)) ELSE s1
      i2 == IF only_if_set THEN 8 ELSE i1
  IN _add_line(s2, target.name, right_side, i2)

SetItem(d, k, v) == [n \in (DOMAIN d) \cup {k} |-> IF n = k THEN v ELSE d[n]]

(* mutant: the function is never wrapped in staticmethod *)
add_function_call_unwrapped(self, target, function, hex) ==
  LET name == "_" \o hex
      method == [fn |-> function, static |-> FALSE]
      s1 == [self EXCEPT !.methods = SetItem(self.methods, name, method)]
  IN Append1(s1, Line(4, "assign", target.name, HelperCall(name)))

(* mutant: the helper is named after the target field *)
add_function_call_field_name(self, target, function, hex) ==
  LET name == "_" \o target.name
      method == [fn |-> function, static |-> function.nparams = 0]
      s1 == [self EXCEPT !.methods = SetItem(self.methods, name, method)]
  IN Append1(s1, Line(4, "assign", target.name, HelperCall(name)))

add_function_call(self, target, function, hex) ==
  LET name == "_" \o hex
      method == [fn |-> function, static |-> function.nparams = 0]
      s1 == [self EXCEPT !.methods = SetItem(self.methods, name, method)]
  IN _add_line(s1, target.name, HelperCall(name), 4)

BothPydantic(self) == self.source_cls._type = PYDANTIC /\ self.target_cls._type = PYDANTIC

(* mutant: the kinds of the two records are not looked at *)
keep_unset_any_kind(self, target, s) ==
  /\ s.allow_none
  /\ target.allow_none
  /\ ~target.required

(* the condition under which Pydantic's unset property is maintained *)
keep_unset(self, target, s) ==
  /\ s.allow_none
  /\ target.allow_none
  /\ ~target.required
  /\ BothPydantic(self)

(* the condition that both are lists of safe mappable types *)
both_lists(target, s) ==
  /\ get_origin(s.type) = "list"
  /\ get_origin(target.type) = "list"
  /\ is_mappable_to(get_args(s.type)[1], get_args(target.type)[1])

Returned(self) == [self |-> self, raised |-> FALSE]
Raised(self) == [self |-> self, raised |-> TRUE]

(* add_mapping; hex is the value uuid4().hex yields if it is called *)
add_mapping(self, target, source, hex) ==
  IF isfunction(source)
  THEN Returned(add_function_call(self, target, source.function, hex))
  ELSE LET s == source.field
       IN IF target.type = s.type /\ ~(s.allow_none /\ disallow_none(target))
            THEN IF keep_unset(self, target, s)
                   THEN Returned(add_assignment(self, target, s, FALSE, TRUE))
                   ELSE Returned(add_assignment(self, target, s, FALSE, FALSE))
          ELSE IF /\ target.type = s.type
                  /\ s.allow_none
                  /\ disallow_none(target)
                  /\ ~target.required
            THEN Returned(add_assignment(self, target, s, TRUE, FALSE))
          ELSE IF /\ is_mappable_to(s.type, target.type)
                  /\ ~(s.allow_none /\ disallow_none(target))
            THEN IF keep_unset(self, target, s)
                   THEN Returned(add_recursive(self, target, s, TRUE, TRUE))
                   ELSE Returned(add_recursive(self, target, s, FALSE, s.allow_none))
          ELSE IF both_lists(target, s) /\ ~(s.allow_none /\ disallow_none(target))
            THEN IF keep_unset(self, target, s)
                   THEN Returned(add_recursive_list(self, target, s, s.allow_none, FALSE, TRUE))
                   ELSE Returned(add_recursive_list(self, target, s, s.allow_none, FALSE, FALSE))
          ELSE IF /\ both_lists(target, s)
                  /\ s.allow_none
                  /\ disallow_none(target)
                  /\ ~target.required
            THEN Returned(add_recursive_list(self, target, s, s.allow_none, TRUE, FALSE))
          ELSE Raised(self)

(* mutant: the return statement is appended to self.lines *)
Str_append(self) ==
  [self |-> [self EXCEPT !.lines = Append(self.lines,
                                          Line(4, "return", self.target_cls.alias_name, NoExpr))],
   text |-> Append(self.lines, Line(4, "return", self.target_cls.alias_name, NoExpr))]

(* __str__: the text of the routine, and the builder it leaves behind *)
Str(self) ==
  [self |-> self,
   text |-> self.lines \o <<Line(4, "return", self.target_cls.alias_name, NoExpr)>>]

----------------------------------------------------------------------------
(* Runtime values and the instances of the source record *)
None == [tag |-> "None", items |-> <<>>]
Absent == [tag |-> "absent", items |-> <<>>]
Obj(cls, n) == [tag |-> "obj", items |-> << <<cls, n>> >>]
List(elems) == [tag |-> "list", items |-> elems]
ValuesOf(t) ==
  IF get_origin(t) = "list"
    THEN {List(<<>>), List(<< <<t.arg, "1">>, <<t.arg, "2">> >>)}
    ELSE IF t = int THEN {Obj("int", "42")}
    ELSE {Obj(t.name, "1")}
FieldValues(f) == ValuesOf(f.type) \cup (IF f.allow_none THEN {None} ELSE {})

(* The valid instances of a record: a required field is explicitly set,   *)
(* an unset field holds its default; only the kind that tracks explicitly *)
(* set fields has __fields_set__.                                         *)
Instances(cls) ==
  {i \in [val : [SourceNames -> UNION {FieldValues(cls.fields[n]) : n \in SourceNames}],
          fields_set : SUBSET SourceNames,
          has_fields_set : {cls._type = PYDANTIC}] :
     /\ \A n \in SourceNames : i.val[n] \in FieldValues(cls.fields[n])
     /\ \A n \in SourceNames : cls.fields[n].required => n \in i.fields_set
     /\ ~i.has_fields_set => i.fields_set = {}}

hasattr(e, func) == \E c \in Classes : c.name = e[1] /\ func \in c.attrs

(* the result of calling the routine func of the object e *)
Apply(func, e) == <<func>> \o e

Ok(v) == [raised |-> FALSE, value |-> v]
Err == [raised |-> TRUE, value |-> None]

(* The value of a right-hand side when the routine runs on inst *)
Eval(expr, methods, inst) ==
  IF expr.op = "attr" THEN Ok(inst.val[expr.var])
  ELSE IF expr.op = "map" THEN
    LET v == inst.val[expr.var]
    IN IF expr.if_None /\ v = None THEN Ok(None)
       ELSE IF v.tag = "obj" /\ hasattr(v.items[1], expr.func)
         THEN Ok([tag |-> "obj", items |-> <<Apply(expr.func, v.items[1])>>])
         ELSE Err
  ELSE IF expr.op = "listmap" THEN
    LET v == inst.val[expr.var]
    IN IF expr.if_None /\ v = None THEN Ok(None)
       ELSE IF v.tag = "list" /\ \A i \in DOMAIN v.items : hasattr(v.items[i], expr.func)
         THEN Ok(List([i \in DOMAIN v.items |-> Apply(expr.func, v.items[i])]))
         ELSE Err
  ELSE IF expr.op = "call" /\ expr.var \in DOMAIN methods THEN
    LET m == methods[expr.var]
        args == IF m.static THEN <<>> ELSE <<"self">>
    IN IF Len(args) = m.fn.nparams
         THEN Ok([tag |-> "result", items |-> <<Apply(m.fn.id, args)>>])
         ELSE Err
  ELSE Err

(* The text is a well-formed routine: every guard has a body and every   *)
(* indented statement belongs to a guard.                                 *)
IsGuard(ln) == ln.kind \in {"if_not_None", "if_set"}
Compiles(text) ==
  /\ Len(text) >= 1
  /\ text[1].kind = "def"
  /\ \A i \in 2..Len(text) :
       /\ text[i].kind # "def"
       /\ IsGuard(text[i]) => i < Len(text) /\ text[i + 1].indent = 8
       /\ text[i].indent = 8 => IsGuard(text[i - 1]) \/ text[i - 1].indent = 8

EmptyDict == [n \in TargetNameSet |-> Absent]
Result(status, cls, d) == [status |-> status, cls |-> cls, d |-> d]

RECURSIVE ExecFrom(_, _, _, _, _, _)
ExecFrom(text, i, d, cond, methods, inst) ==
  IF i > Len(text) THEN Result("returned", "None", d)
  ELSE LET ln == text[i]
       IN IF ln.kind = "return" THEN Result("returned", ln.left, d)
          ELSE IF ln.kind = "init" THEN ExecFrom(text, i + 1, EmptyDict, cond, methods, inst)
          ELSE IF ln.kind = "if_not_None"
            THEN ExecFrom(text, i + 1, d, inst.val[ln.left] # None, methods, inst)
          ELSE IF ln.kind = "if_set"
            THEN IF inst.has_fields_set
                   THEN ExecFrom(text, i + 1, d, ln.left \in inst.fields_set, methods, inst)
                   ELSE Result("raised", "", d)
          ELSE IF ln.kind = "assign" /\ ln.indent = 8 /\ ~cond
            THEN ExecFrom(text, i + 1, d, cond, methods, inst)
          ELSE IF ln.kind = "assign"
            THEN LET r == Eval(ln.right, methods, inst)
                 IN IF r.raised THEN Result("raised", "", d)
                    ELSE ExecFrom(text, i + 1, [d EXCEPT ![ln.left] = r.value],
                                  cond, methods, inst)
          ELSE ExecFrom(text, i + 1, d, cond, methods, inst)

(* Compiling the text and calling convert(inst) *)
Exec(text, methods, inst) ==
  IF Compiles(text)
    THEN ExecFrom(text, 2, EmptyDict, TRUE, methods, inst)
    ELSE Result("SyntaxError", "", EmptyDict)

----------------------------------------------------------------------------
VARIABLES
  code,      \* the builder, a MappingMethodSourceCode
  issued,    \* the identifiers uuid4 has returned
  registry,  \* all helpers registered so far, over all builders
  mapped,    \* the (target, origin) pairs added to the builder
  last,      \* the last add_mapping call and its outcome
  text,      \* the text of the routine built last
  run        \* the last call of that routine

vars == <<code, issued, registry, mapped, last, text, run>>

(* The types of the target fields: the source types int and list[Bar2]    *)
(* themselves, the targets of the routine of Bar2 and of its lists, and a  *)
(* list type no routine leads to.                                          *)
TargetFields(names) ==
  {f \in FieldMeta(names) : f.type \in {int, Bar, list_Bar, list_Bar2, list_int}}

(* The source field: add_mapping never reads source.required, and a        *)
(* required field is always explicitly set, which is one of the cases of a *)
(* field that need not be; its type is one that same-type, nested and list *)
(* mappings start from.                                                    *)
SourceFields ==
  {f \in FieldMeta(SourceNames) : f.type \in {int, Bar2, list_Bar2} /\ ~f.required}
SourceClasses ==
  {[name |-> "Foo", alias_name |-> "Foo", _type |-> t, fields |-> [n \in SourceNames |-> f]] :
     t \in DataclassType, f \in SourceFields}
TargetClasses ==
  {[name |-> "Baz", alias_name |-> "BazAlias", _type |-> t] : t \in DataclassType}

NoCall == [called |-> FALSE, target |-> NoField, source |-> FieldOrigin(NoField),
           raised |-> FALSE, nlines |-> 0]
NoRun == [called |-> FALSE, inst |-> [val |-> [n \in SourceNames |-> None], fields_set |-> {},
                                      has_fields_set |-> FALSE],
          result |-> Result("", "", EmptyDict)]

Construct(source_cls, target_cls) ==
  /\ code' = New(source_cls, target_cls)
  /\ mapped' = <<>>
  /\ last' = NoCall
  /\ UNCHANGED <<issued, registry, text, run>>

Init ==
  /\ \E source_cls \in SourceClasses, target_cls \in TargetClasses :
       code = New(source_cls, target_cls)
  /\ issued = {}
  /\ registry = [names |-> {}, count |-> 0]
  /\ mapped = <<>>
  /\ last = NoCall
  /\ text = <<>>
  /\ run = NoRun

(* The next target field, and what add_mapping can be given for it *)
NextName == TargetNames[Len(mapped) + 1]
FieldOrigins(cls) == {FieldOrigin(cls.fields[n]) : n \in SourceNames}
FunctionOrigins == {FunctionOrigin(fn) : fn \in Functions}
FunctionTargets(names) ==
  {f \in FieldMeta(names) : \/ f.type = int /\ ~f.allow_none /\ f.required
                            \/ f.type = Bar /\ f.allow_none /\ ~f.required}

(* the synthesizer renders the routine after its last add_mapping *)
Finalized == text = Str(code).text

AddMapping(target, source, hex) ==
  /\ target.name = NextName
  /\ LET r == add_mapping(code, target, source, hex)
     IN /\ code' = r.self
        /\ last' = [called |-> TRUE, target |-> target, source |-> source,
                    raised |-> r.raised, nlines |-> Len(code.lines)]
        /\ mapped' = IF r.raised THEN mapped
                     ELSE Append(mapped, [target |-> target, source |-> source])
        /\ issued' = IF isfunction(source) THEN issued \cup {hex} ELSE issued
        /\ registry' = IF isfunction(source)
                         THEN [names |-> registry.names \cup
                                           (DOMAIN r.self.methods \ DOMAIN code.methods),
                               count |-> registry.count + 1]
                         ELSE registry
  /\ UNCHANGED <<text, run>>

AddField(target, source) ==
  /\ ~isfunction(source)
  /\ AddMapping(target, source, "")

AddFunction(target, source, hex) ==
  /\ isfunction(source)
  /\ AddMapping(target, source, hex)

Render ==
  /\ ~last.raised
  /\ ~run.called
  /\ LET r == Str(code)
     IN /\ text' = r.text
        /\ code' = r.self
  /\ UNCHANGED <<issued, registry, mapped, last, run>>

Convert(inst) ==
  /\ ~last.raised
  /\ run' = [called |-> TRUE, inst |-> inst, result |-> Exec(text, code.methods, inst)]
  /\ UNCHANGED <<code, issued, registry, mapped, last, text>>

Building == ~last.raised /\ ~run.called /\ Len(mapped) < MaxFields

Next ==
  \/ /\ Building
     /\ \E target \in TargetFields({NextName}), source \in FieldOrigins(code.source_cls) :
          AddField(target, source)
  \/ /\ Building
     /\ \E target \in FunctionTargets({NextName}), source \in FunctionOrigins,
           hex \in uuid4(issued) :
          AddFunction(target, source, hex)
  \/ Render
  \/ /\ Finalized
     /\ \E inst \in Instances(code.source_cls) : Convert(inst)

Spec == Init /\ [][Next]_vars

(* Repeated synthesis: builders constructed one after another, each given *)
(* function origins; field origins leave methods and uuid4 alone.          *)
NextHelpers ==
  \/ \E source_cls \in SourceClasses, target_cls \in TargetClasses :
       Construct(source_cls, target_cls)
  \/ /\ Building
     /\ \E target \in FunctionTargets({NextName}), source \in FunctionOrigins,
           hex \in uuid4(issued) :
          AddFunction(target, source, hex)

SpecHelpers == Init /\ [][NextHelpers]_vars

----------------------------------------------------------------------------
(* The vocabulary of the strategy decision table *)
Routine(S, T) == S = Bar2 /\ T = Bar
IsList(T) == T \in {list_int, list_Bar, list_Bar2}
ElemOf(T) == CHOOSE c \in Classes : c.name = T.arg
ListRoutine(S, T) == IsList(S) /\ IsList(T) /\ Routine(ElemOf(S), ElemOf(T))
NullIntoNonNull(t, s) == s.allow_none /\ ~t.allow_none
TracksBoth == code.source_cls._type = PYDANTIC /\ code.target_cls._type = PYDANTIC
Row1(t, s) ==
  /\ t.type = s.type
  /\ ~NullIntoNonNull(t, s)
  /\ ~(TracksBoth /\ t.allow_none /\ ~t.required)
Row2(t, s) ==
  /\ t.type = s.type
  /\ ~NullIntoNonNull(t, s)
  /\ TracksBoth /\ t.allow_none /\ ~t.required
Row3(t, s) == t.type = s.type /\ NullIntoNonNull(t, s) /\ ~t.required
Row4(t, s) == Routine(s.type, t.type) /\ ~NullIntoNonNull(t, s)
Row5(t, s) == ListRoutine(s.type, t.type) /\ ~NullIntoNonNull(t, s)
Row6(t, s) == ListRoutine(s.type, t.type) /\ NullIntoNonNull(t, s) /\ ~t.required
AnyRow(t, s) ==
  Row1(t, s) \/ Row2(t, s) \/ Row3(t, s) \/ Row4(t, s) \/ Row5(t, s) \/ Row6(t, s)

(* The fields added so far, and the lines each of them contributed *)
Fields == DOMAIN mapped
FieldPairs == {k \in Fields : ~isfunction(mapped[k].source)}
FunctionPairs == {k \in Fields : isfunction(mapped[k].source)}
T(k) == mapped[k].target
S(k) == mapped[k].source.field
AssignIdx(ls, k) == CHOOSE i \in DOMAIN ls : ls[i].kind = "assign" /\ ls[i].left = T(k).name
StartIdx(ls, k) == IF k = 1 THEN 3 ELSE AssignIdx(ls, k - 1) + 1
Emitted(k) ==
  LET ls == code.lines
  IN IF \A j \in 1..k : \E i \in DOMAIN ls : ls[i].kind = "assign" /\ ls[i].left = T(j).name
       THEN SubSeq(ls, StartIdx(ls, k), AssignIdx(ls, k))
       ELSE <<>>
Unguarded(t, expr) == <<Line(4, "assign", t.name, expr)>>
GuardedBySet(t, s, expr) == <<IfSet(s.name), Line(8, "assign", t.name, expr)>>
GuardedByNotNone(t, s, expr) == <<IfNotNone(s.name), Line(8, "assign", t.name, expr)>>

(* What the call left in d, and the values the target field can then have: *)
(* an absent entry leaves the field to the target's own default.           *)
D(k) == run.result.d[T(k).name]
SourceValue(k) == run.inst.val[S(k).name]
ExplicitlySet(k) == S(k).name \in run.inst.fields_set
TargetValues(k) ==
  IF D(k) # Absent THEN {D(k)}
  ELSE IF T(k).required THEN {}
  ELSE FieldValues(T(k))
Nested(v) == [tag |-> "obj", items |-> <<Apply("_map_to_Bar", v.items[1])>>]
NestedList(v) == List([i \in DOMAIN v.items |-> Apply("_map_to_Bar", v.items[i])])

(* The pairs whose statement keeps Pydantic's unset property *)
KeepsUnset(k) == TracksBoth /\ S(k).allow_none /\ T(k).allow_none /\ ~T(k).required

----------------------------------------------------------------------------
(* C1: a field pair of decision-table row 1 gets exactly one unguarded     *)
(* statement d[target.name] = self.<source.name>, and a call of the        *)
(* routine gives the target field the value of the source field.           *)
C1_IdentityPassThrough ==
  \A k \in FieldPairs :
    Row1(T(k), S(k)) =>
      /\ Emitted(k) = Unguarded(T(k), Attr(S(k).name))
      /\ run.called => /\ run.result.status = "returned"
                       /\ TargetValues(k) = {SourceValue(k)}

C1_Witness ==
  /\ run.called
  /\ \E k \in FieldPairs :
       /\ Row1(T(k), S(k))
       /\ T(k).type = int /\ T(k).required /\ ~T(k).allow_none
       /\ D(k) = Obj("int", "42")

C2_Pairs ==
  {k \in FieldPairs : /\ T(k).type # S(k).type
                      /\ Routine(S(k).type, T(k).type)
                      /\ ~NullIntoNonNull(T(k), S(k))}
ExpectedNested(k) == IF SourceValue(k) = None THEN None ELSE Nested(SourceValue(k))

(* C2, as stated: for a pair of different types with a routine from        *)
(* source.type to target.type and no nullable-into-non-nullable conflict,  *)
(* the target field's value is the routine applied to the source value,    *)
(* and null when the source value is null.                                 *)
C2_Original ==
  run.called => \A k \in C2_Pairs : TargetValues(k) = {ExpectedNested(k)}

(* C2, amended: the same, except that when both records track explicitly   *)
(* set fields, both fields are nullable and the target is not required,    *)
(* the statement is guarded by the explicit-set test: the value is         *)
(* assigned when source.name was explicitly provided and no entry is       *)
(* assigned otherwise.  The routine is never invoked on null.              *)
C2_NestedInvocation ==
  \A k \in C2_Pairs :
    /\ Emitted(k) =
         IF KeepsUnset(k)
           THEN GuardedBySet(T(k), S(k), MapCall(S(k).name, "_map_to_Bar", TRUE))
           ELSE Unguarded(T(k), MapCall(S(k).name, "_map_to_Bar", S(k).allow_none))
    /\ run.called =>
         /\ run.result.status = "returned"
         /\ IF KeepsUnset(k) /\ ~ExplicitlySet(k)
              THEN D(k) = Absent
              ELSE D(k) = ExpectedNested(k)

C2_Witness ==
  /\ run.called
  /\ \E k \in C2_Pairs :
       /\ ~KeepsUnset(k)
       /\ S(k).allow_none /\ SourceValue(k) = None /\ D(k) = None

C3_PairsOriginal == {k \in FieldPairs : TracksBoth /\ T(k).allow_none /\ ~T(k).required}
C3_Holds(k) ==
  /\ LET e == Emitted(k)
     IN /\ Len(e) = 2
        /\ e[1] = IfSet(S(k).name)
        /\ e[2].kind = "assign" /\ e[2].indent = 8
        /\ e[2].left = T(k).name
  /\ run.called =>
       /\ run.result.status = "returned"
       /\ ~ExplicitlySet(k) => D(k) = Absent
       /\ ExplicitlySet(k) /\ SourceValue(k) = None => D(k) = None

(* C3, as stated: when both records track explicitly set fields and the    *)
(* target field is nullable and not required, the assignment is guarded by *)
(* the explicit-set test: an unset source field leaves the target unset,   *)
(* a source field explicitly set to null sets the target to null.          *)
C3_Original == \A k \in C3_PairsOriginal : C3_Holds(k)

(* C3, amended: the same for the pairs whose source field is nullable too *)
C3_ExplicitSetFidelity ==
  \A k \in C3_PairsOriginal : S(k).allow_none => C3_Holds(k)

C3_Witness ==
  /\ run.called
  /\ \E k \in C3_PairsOriginal :
       /\ S(k).allow_none
       /\ ~ExplicitlySet(k) /\ SourceValue(k) = None /\ D(k) = Absent

C4_Pairs ==
  {k \in FieldPairs : /\ NullIntoNonNull(T(k), S(k))
                      /\ ~T(k).required
                      /\ T(k).type = S(k).type \/ ListRoutine(S(k).type, T(k).type)}

(* C4: a nullable source mapped to a non-nullable target that is not       *)
(* required, of the same type or both lists with a routine for the         *)
(* elements, is guarded by a null check: a null source value puts no entry *)
(* into d, a non-null one is copied or mapped element by element; null is  *)
(* never assigned.                                                         *)
C4_NotNoneGuard ==
  \A k \in C4_Pairs :
    /\ LET e == Emitted(k)
       IN /\ Len(e) = 2
          /\ e[1] = IfNotNone(S(k).name)
          /\ e[2].kind = "assign" /\ e[2].indent = 8
          /\ e[2].left = T(k).name
    /\ run.called =>
         /\ run.result.status = "returned"
         /\ D(k) # None
         /\ SourceValue(k) = None => D(k) = Absent
         /\ SourceValue(k) # None =>
              D(k) = IF T(k).type = S(k).type THEN SourceValue(k)
                     ELSE NestedList(SourceValue(k))

C4_Witness ==
  /\ run.called
  /\ \E k \in C4_Pairs :
       /\ ListRoutine(S(k).type, T(k).type)
       /\ SourceValue(k) = None /\ D(k) = Absent
  /\ \E k \in C4_Pairs : T(k).type = S(k).type

C5_Pairs ==
  {k \in FieldPairs : /\ ListRoutine(S(k).type, T(k).type)
                      /\ ~NullIntoNonNull(T(k), S(k))}
MappedElementwise(v, w) ==
  /\ w.tag = "list"
  /\ Len(w.items) = Len(v.items)
  /\ \A i \in DOMAIN v.items : w.items[i] = Apply("_map_to_Bar", v.items[i])
ExpectedList(k, w) ==
  IF SourceValue(k) = None THEN w = None ELSE MappedElementwise(SourceValue(k), w)

(* C5, as stated: for two lists with a routine for the elements and no     *)
(* nullable-into-non-nullable conflict, the target value is the list of    *)
(* the mapped elements, in order, and null when the source list is null.   *)
C5_Original ==
  run.called =>
    \A k \in C5_Pairs :
      /\ TargetValues(k) # {}
      /\ \A w \in TargetValues(k) : ExpectedList(k, w)

(* C5, amended: the same, except that under the explicit-set guard (both   *)
(* records track explicitly set fields, both fields nullable, target not   *)
(* required) the list is assigned when source.name was explicitly provided *)
(* and no entry is assigned otherwise.                                     *)
C5_ListInvocation ==
  \A k \in C5_Pairs :
    /\ Emitted(k) =
         IF KeepsUnset(k)
           THEN GuardedBySet(T(k), S(k), ListMapCall(S(k).name, "_map_to_Bar", TRUE))
           ELSE Unguarded(T(k), ListMapCall(S(k).name, "_map_to_Bar", S(k).allow_none))
    /\ run.called =>
         /\ run.result.status = "returned"
         /\ IF KeepsUnset(k) /\ ~ExplicitlySet(k)
              THEN D(k) = Absent
              ELSE ExpectedList(k, D(k))

C5_Witness ==
  /\ run.called
  /\ \E k \in C5_Pairs :
       /\ S(k).allow_none /\ ~KeepsUnset(k)
       /\ SourceValue(k) = List(<< <<"Bar2", "1">>, <<"Bar2", "2">> >>)
       /\ D(k) = List(<< <<"_map_to_Bar", "Bar2", "1">>, <<"_map_to_Bar", "Bar2", "2">> >>)

Unmappable(t, s) ==
  \/ t.type # s.type /\ ~Routine(s.type, t.type) /\ ~ListRoutine(s.type, t.type)
  \/ NullIntoNonNull(t, s) /\ t.required
  \/ /\ NullIntoNonNull(t, s)
     /\ Routine(s.type, t.type)
     /\ t.type # s.type /\ ~ListRoutine(s.type, t.type)

(* C6: for a field origin add_mapping raises TypeError exactly when none   *)
(* of rows 1-6 matches the pair (the types are incompatible, or a nullable *)
(* source meets a non-nullable target that is required or that only a      *)
(* nested routine leads to), it then adds no line, and a routine that was  *)
(* built never fails when it is called.                                    *)
C6_TypeErrorIffNoRow ==
  /\ last.called /\ ~isfunction(last.source) =>
       /\ last.raised <=> ~AnyRow(last.target, last.source.field)
       /\ last.raised <=> Unmappable(last.target, last.source.field)
       /\ last.raised => Len(code.lines) = last.nlines
  /\ \A k \in FieldPairs : AnyRow(T(k), S(k))
  /\ run.called => run.result.status = "returned"

C6_Witness ==
  /\ last.called /\ last.raised
  /\ last.source.field.type = list_Bar2 /\ last.target.type = list_int
  /\ Len(mapped) = 1

(* C7: a function origin is registered as a helper and gets exactly one    *)
(* unguarded statement, whatever the target's type and nullability; a      *)
(* function of no arguments is registered as a static helper and called    *)
(* without arguments, a function of one argument is registered as it is    *)
(* and called with the source instance.                                    *)
C7_FunctionOrigin ==
  /\ last.called /\ isfunction(last.source) => ~last.raised
  /\ \A k \in FunctionPairs :
       LET fn == mapped[k].source.function
           e == Emitted(k)
       IN /\ Len(e) = 1
          /\ e[1].indent = 4 /\ e[1].left = T(k).name
          /\ e[1].right.op = "call"
          /\ e[1].right.var \in DOMAIN code.methods
          /\ code.methods[e[1].right.var] = [fn |-> fn, static |-> fn.nparams = 0]
          /\ run.called =>
               /\ run.result.status = "returned"
               /\ D(k) = [tag |-> "result",
                          items |-> <<IF fn.nparams = 0 THEN <<fn.id>> ELSE <<fn.id, "self">> >>]

C7_Witness ==
  /\ run.called
  /\ \E k \in FunctionPairs : D(k) = [tag |-> "result", items |-> << <<"f0">> >>]
  /\ \E k \in FunctionPairs : D(k) = [tag |-> "result", items |-> << <<"f1", "self">> >>]

(* C8: helper identifiers never collide, within a builder or across        *)
(* builders: every registration adds a new name, and a builder's registry  *)
(* has as many entries as function origins were added to it.               *)
C8_HelperNamesDistinct ==
  /\ Cardinality(registry.names) = registry.count
  /\ DOMAIN code.methods \subseteq registry.names
  /\ Cardinality(DOMAIN code.methods) = Cardinality(FunctionPairs)

C8_Witness ==
  /\ registry.count = 2
  /\ Cardinality(DOMAIN code.methods) = 1
  /\ Len(mapped) = 1

IsAssign(ln) == ln.kind = "assign"

(* C9: the text of the routine is the signature line naming                *)
(* target_cls.name, the initialisation of d, the statements of the fields  *)
(* in the order they were added and one final return statement that        *)
(* constructs target_cls.alias_name; rendering leaves the builder's lines  *)
(* alone, so rendering again gives the same text and no return statement   *)
(* precedes the statement of a field added later.                          *)
C9_Rendering ==
  /\ \A i \in DOMAIN code.lines : code.lines[i].kind # "return"
  /\ text # <<>> =>
       LET n == Len(text)
           assigns == SelectSeq(text, IsAssign)
       IN /\ n >= 3
          /\ text[1] = Line(0, "def", code.target_cls.name, NoExpr)
          /\ text[2] = Line(4, "init", "", NoExpr)
          /\ text[n] = Line(4, "return", code.target_cls.alias_name, NoExpr)
          /\ \A i \in 1..(n - 1) : text[i].kind # "return"
          /\ n - 1 <= Len(code.lines)
          /\ SubSeq(text, 1, n - 1) = SubSeq(code.lines, 1, n - 1)
          /\ Len(assigns) <= Len(mapped)
          /\ \A i \in DOMAIN assigns : assigns[i].left = T(i).name
          /\ Len(code.lines) = n - 1 => Str(code).text = text /\ Len(assigns) = Len(mapped)

C9_Witness ==
  /\ Finalized
  /\ Len(mapped) = 2
  /\ Len(SelectSeq(text, IsAssign)) = 2
  /\ \E i \in DOMAIN text : IsGuard(text[i])

(* C10: every successful add_mapping appends one assignment at indent 4 or *)
(* one guard line followed by one assignment at indent 8, so every guard   *)
(* line is followed by an indent-8 assignment and every indent-8           *)
(* assignment is preceded by a guard line.                                 *)
C10_GuardWellFormed ==
  /\ \A k \in Fields :
       LET e == Emitted(k)
       IN \/ /\ Len(e) = 1
             /\ e[1].kind = "assign" /\ e[1].indent = 4
          \/ /\ Len(e) = 2
             /\ IsGuard(e[1]) /\ e[1].indent = 4
             /\ e[2].kind = "assign" /\ e[2].indent = 8
  /\ \A i \in DOMAIN code.lines :
       /\ IsGuard(code.lines[i]) =>
            /\ i < Len(code.lines)
            /\ code.lines[i + 1].kind = "assign" /\ code.lines[i + 1].indent = 8
       /\ code.lines[i].indent = 8 =>
            /\ code.lines[i].kind = "assign"
            /\ i > 1 /\ IsGuard(code.lines[i - 1])
  /\ last.called /\ ~last.raised => Len(code.lines) - last.nlines \in {1, 2}

C10_Witness ==
  /\ Len(mapped) = 2
  /\ Len(Emitted(1)) = 2 /\ Emitted(1)[1].kind = "if_set"
  /\ Len(Emitted(2)) = 2 /\ Emitted(2)[1].kind = "if_not_None"

====
